---- MODULE Spec2Model ----
(***************************************************************************)
(* Gesture media controller: the per-frame decision pipeline of            *)
(* gesture_media_control.py (classification, smoothing over a deque of     *)
(* SMOOTHING_FRAMES labels, cooldown-gated dispatch with same-gesture      *)
(* suppression, native/fallback key injection) as a state machine.         *)
(*                                                                         *)
(* Timestamps (time.time(), a float of seconds) are counted in tenths of   *)
(* a second, so ACTION_COOLDOWN = 0.8 s is 8.  The clock is not assumed    *)
(* monotonic: every frame may read any value of Times.                     *)
(***************************************************************************)
EXTENDS Integers, Sequences, FiniteSets, TLC

\* ---- Settings (gesture_media_control.py, lines 30-31) ----
SMOOTHING_FRAMES == 6
ACTION_COOLDOWN == 8

\* ---- Bounds of the model ----
\* the clock values a frame may read: the multiples of half the cooldown up to
\* MaxTick of them (MaxLongTick in the specifications with few gestures)
MaxTick == 7
MaxLongTick == 9
\* landmark coordinates are drawn from 0..MaxCoord
MaxCoord == 1
Grid(n) == {(ACTION_COOLDOWN \div 2) * k : k \in 0..n}
Times == Grid(MaxTick)
LongTimes == Grid(MaxLongTick)
Coords == 0..MaxCoord

\* Python's None (last_triggered before any action, a missing action_desc)
NONE == "None"

Bit == {0, 1}
AllFingers == {<<a, b, c, d, e>> : a \in Bit, b \in Bit, c \in Bit, d \in Bit, e \in Bit}

\* finger vectors the pose source delivers in the frame loop of Spec
FingerInputs == {<<1, 1, 1, 1, 1>>, <<0, 0, 0, 0, 0>>, <<1, 1, 0, 0, 0>>}

\* mutant: the thumb compared as for a Right hand whatever the handedness
fingers_up_right_only(lm, handedness_label) ==
    LET thumb == lm.thumb_tip_x < lm.thumb_joint_x
        others == [i \in 1..4 |-> lm.tip_y[i] < lm.pip_y[i]]
        fingers == <<thumb>> \o others
    IN  [i \in 1..5 |-> IF fingers[i] THEN 1 ELSE 0]

\* ---- fingers_up (lines 41-52) ----
\* lm: the landmark coordinates the function reads: the thumb's tip and the
\* joint before it (x), each other finger's tip and pip joint (y)
fingers_up(lm, handedness_label) ==
    LET thumb == IF handedness_label = "Right"
                 THEN lm.thumb_tip_x < lm.thumb_joint_x
                 ELSE lm.thumb_tip_x > lm.thumb_joint_x
        others == [i \in 1..4 |-> lm.tip_y[i] < lm.pip_y[i]]
        fingers == <<thumb>> \o others
    IN  [i \in 1..5 |-> IF fingers[i] THEN 1 ELSE 0]

\* mutant: POINT decided by the thumb and the index finger alone
detect_gesture_loose_point(fingers) ==
    IF fingers = <<1, 1, 1, 1, 1>> THEN "OPEN_PALM"
    ELSE IF fingers = <<0, 0, 0, 0, 0>> THEN "FIST"
    ELSE IF fingers = <<1, 0, 0, 0, 0>> THEN "THUMB_UP"
    ELSE IF fingers[1] = 0 /\ fingers[2] = 1 THEN "POINT"
    ELSE "UNKNOWN"

\* ---- detect_gesture (lines 54-65) ----
detect_gesture(fingers) ==
    IF fingers = <<1, 1, 1, 1, 1>> THEN "OPEN_PALM"
    ELSE IF fingers = <<0, 0, 0, 0, 0>> THEN "FIST"
    ELSE IF fingers = <<1, 0, 0, 0, 0>> THEN "THUMB_UP"
    ELSE IF fingers = <<0, 1, 0, 0, 0>> THEN "POINT"
    ELSE "UNKNOWN"

\* mutant: a deque without maxlen
deque_append_unbounded(h, x) == Append(h, x)

\* ---- deque(maxlen=SMOOTHING_FRAMES).append (line 148, 183, 199) ----
deque_append(h, x) ==
    IF Len(h) >= SMOOTHING_FRAMES THEN Append(Tail(h), x) ELSE Append(h, x)

\* ---- Counter(h).most_common(1)[0] (line 184) ----
Range(h) == {h[i] : i \in 1..Len(h)}
Count(h, g) == Cardinality({i \in 1..Len(h) : h[i] = g})
FirstIndex(h, g) == CHOOSE i \in 1..Len(h) : h[i] = g /\ \A j \in 1..(i - 1) : h[j] # g
\* the largest count wins; among equal counts the key inserted first
most_common(h) ==
    CHOOSE g \in Range(h) :
        \A o \in Range(h) :
            \/ Count(h, g) > Count(h, o)
            \/ Count(h, g) = Count(h, o) /\ FirstIndex(h, g) <= FirstIndex(h, o)

\* mutant: unanimity of a window that is not full yet
is_stable_partial(h) ==
    (most_common(h) # "UNKNOWN") /\ (Count(h, most_common(h)) = Len(h))

\* mutant: UNKNOWN is not excluded
is_stable_any(h) == Count(h, most_common(h)) = SMOOTHING_FRAMES

\* mutant: a majority of the window is enough
is_stable_majority(h) ==
    (most_common(h) # "UNKNOWN") /\ (2 * Count(h, most_common(h)) > Len(h))

\* line 185: stable = (most_common != "UNKNOWN") and (count == maxlen)
is_stable(h) ==
    (most_common(h) # "UNKNOWN") /\ (Count(h, most_common(h)) = SMOOTHING_FRAMES)

\* ---- press_media_key_if_available (lines 68-81) ----
\* native: "unavailable" (getattr gives None), "ok", "raises" (press/release throws)
\* result: the value returned, the call as the executor sees it, whether an
\* exception leaves the function
NativeOutcomes == {"unavailable", "ok", "raises"}
FallbackOutcomes == {"ok", "raises"}
press_media_key_if_available(key_attr_name, native) ==
    [ok |-> (native = "ok"),
     calls |-> <<[path |-> "native", key |-> key_attr_name, ok |-> (native = "ok")]>>,
     raised |-> FALSE]

\* mutant: no try/except around the key injection
press_key_fallback_notry(key_or_combo, fallback) ==
    [ok |-> (fallback = "ok"),
     calls |-> <<[path |-> "fallback", key |-> key_or_combo, ok |-> (fallback = "ok")]>>,
     raised |-> (fallback = "raises")]

\* ---- press_key_fallback (lines 83-100) ----
press_key_fallback(key_or_combo, fallback) ==
    [ok |-> (fallback = "ok"),
     calls |-> <<[path |-> "fallback", key |-> key_or_combo, ok |-> (fallback = "ok")]>>,
     raised |-> FALSE]

\* mutant: the description is returned only when a key press was delivered
do_action_if_delivered(desc, key_attr_name, key_or_combo, native, fallback) ==
    LET n == press_media_key_if_available(key_attr_name, native)
        f == press_key_fallback(key_or_combo, fallback)
    IN  IF n.raised
        THEN [desc |-> NONE, calls |-> n.calls, raised |-> TRUE]
        ELSE IF ~n.ok
        THEN [desc |-> IF f.raised \/ ~f.ok THEN NONE ELSE desc, calls |-> n.calls \o f.calls, raised |-> f.raised]
        ELSE [desc |-> desc, calls |-> n.calls, raised |-> FALSE]

\* ---- perform_action_for_gesture (lines 102-139) ----
\* one branch of it: ok = press_media_key_if_available(..);
\* if not ok: press_key_fallback(..); return desc
do_action(desc, key_attr_name, key_or_combo, native, fallback) ==
    LET n == press_media_key_if_available(key_attr_name, native)
        f == press_key_fallback(key_or_combo, fallback)
    IN  IF n.raised
        THEN [desc |-> NONE, calls |-> n.calls, raised |-> TRUE]
        ELSE IF ~n.ok
        THEN [desc |-> IF f.raised THEN NONE ELSE desc, calls |-> n.calls \o f.calls, raised |-> f.raised]
        ELSE [desc |-> desc, calls |-> n.calls, raised |-> FALSE]

\* mutant: POINT falls back to the keystroke of FIST
perform_action_for_gesture_left(gesture_name, native, fallback) ==
    IF gesture_name = "OPEN_PALM" THEN do_action("Play/Pause", "media_play_pause", "space", native, fallback)
    ELSE IF gesture_name = "FIST" THEN do_action("Previous Track", "media_previous", "ctrl_l+left", native, fallback)
    ELSE IF gesture_name = "POINT" THEN do_action("Next Track", "media_next", "ctrl_l+left", native, fallback)
    ELSE IF gesture_name = "THUMB_UP" THEN do_action("Volume Up", "media_volume_up", "+", native, fallback)
    ELSE [desc |-> NONE, calls |-> <<>>, raised |-> FALSE]

perform_action_for_gesture(gesture_name, native, fallback) ==
    IF gesture_name = "OPEN_PALM" THEN do_action("Play/Pause", "media_play_pause", "space", native, fallback)
    ELSE IF gesture_name = "FIST" THEN do_action("Previous Track", "media_previous", "ctrl_l+left", native, fallback)
    ELSE IF gesture_name = "POINT" THEN do_action("Next Track", "media_next", "ctrl_l+right", native, fallback)
    ELSE IF gesture_name = "THUMB_UP" THEN do_action("Volume Up", "media_volume_up", "+", native, fallback)
    ELSE [desc |-> NONE, calls |-> <<>>, raised |-> FALSE]

\* ---- one iteration of the frame loop (lines 167-199) ----
\* a hand observation: present (landmarks and handedness both delivered), with
\* the finger vector fingers_up derives, or absent
Absent == [present |-> FALSE, fingers |-> <<0, 0, 0, 0, 0>>]
Present(fingers) == [present |-> TRUE, fingers |-> fingers]

\* mutant: the same gesture may fire again once the cooldown is over
may_fire_no_dedup(stable, mc, t, last_time, last_gesture) ==
    stable /\ (t - last_time) > ACTION_COOLDOWN

\* mutant: the cooldown compared with >= instead of >
may_fire_ge(stable, mc, t, last_time, last_gesture) ==
    stable /\ (t - last_time) >= ACTION_COOLDOWN /\ mc # last_gesture

\* line 188 and 190: the two conditions under which the executor is called
may_fire(stable, mc, t, last_time, last_gesture) ==
    stable /\ (t - last_time) > ACTION_COOLDOWN /\ mc # last_gesture

\* mutant: a stable frame that does not fire restarts the cooldown
dispatch_restarts_cooldown(s, h, t, native, fallback) ==
    LET mc == most_common(h)
        stable == is_stable(h)
    IN  IF may_fire(stable, mc, t, s.last_action_time, s.last_triggered)
        THEN LET act == perform_action_for_gesture(mc, native, fallback)
             IN  [gesture_history |-> h, last_action_time |-> t, last_triggered |-> mc,
                  dispatched |-> Append(s.dispatched, [gesture |-> mc, time |-> t, action |-> act.desc]),
                  stable |-> mc, fired |-> mc, invoked |-> TRUE,
                  calls |-> act.calls, raised |-> act.raised]
        ELSE [gesture_history |-> h,
              last_action_time |-> IF stable THEN t ELSE s.last_action_time,
              last_triggered |-> s.last_triggered, dispatched |-> s.dispatched,
              stable |-> IF stable THEN mc ELSE NONE, fired |-> NONE, invoked |-> FALSE,
              calls |-> <<>>, raised |-> FALSE]

\* lines 184-195, after the append: s is the session (gesture_history,
\* last_action_time, last_triggered, dispatched), h the window after the push
dispatch(s, h, t, native, fallback) ==
    LET mc == most_common(h)
        stable == is_stable(h)
    IN  IF may_fire(stable, mc, t, s.last_action_time, s.last_triggered)
        THEN LET act == perform_action_for_gesture(mc, native, fallback)
             IN  IF act.desc # NONE
                 THEN [gesture_history |-> h, last_action_time |-> t, last_triggered |-> mc,
                       dispatched |-> Append(s.dispatched, [gesture |-> mc, time |-> t, action |-> act.desc]),
                       stable |-> mc, fired |-> mc, invoked |-> TRUE,
                       calls |-> act.calls, raised |-> act.raised]
                 ELSE [gesture_history |-> h, last_action_time |-> s.last_action_time,
                       last_triggered |-> s.last_triggered, dispatched |-> s.dispatched,
                       stable |-> mc, fired |-> NONE, invoked |-> TRUE,
                       calls |-> act.calls, raised |-> act.raised]
        ELSE [gesture_history |-> h, last_action_time |-> s.last_action_time,
              last_triggered |-> s.last_triggered, dispatched |-> s.dispatched,
              stable |-> IF stable THEN mc ELSE NONE, fired |-> NONE, invoked |-> FALSE,
              calls |-> <<>>, raised |-> FALSE]

\* mutant: the no-hand branch pushes the display label of line 167
process_frame_no_hand_label(s, ob, t, native, fallback) ==
    IF ob.present
    THEN dispatch(s, deque_append(s.gesture_history, detect_gesture(ob.fingers)), t, native, fallback)
    ELSE [gesture_history |-> deque_append(s.gesture_history, "No hand"),
          last_action_time |-> s.last_action_time,
          last_triggered |-> s.last_triggered, dispatched |-> s.dispatched,
          stable |-> NONE, fired |-> NONE, invoked |-> FALSE,
          calls |-> <<>>, raised |-> FALSE]

\* mutant: the no-hand branch leaves the window as it is
process_frame_keeps_window(s, ob, t, native, fallback) ==
    IF ob.present
    THEN dispatch(s, deque_append(s.gesture_history, detect_gesture(ob.fingers)), t, native, fallback)
    ELSE [gesture_history |-> s.gesture_history,
          last_action_time |-> s.last_action_time,
          last_triggered |-> s.last_triggered, dispatched |-> s.dispatched,
          stable |-> NONE, fired |-> NONE, invoked |-> FALSE,
          calls |-> <<>>, raised |-> FALSE]

\* lines 171-199: the hand-present branch and the no-hand branch
process_frame(s, ob, t, native, fallback) ==
    IF ob.present
    THEN dispatch(s, deque_append(s.gesture_history, detect_gesture(ob.fingers)), t, native, fallback)
    ELSE [gesture_history |-> deque_append(s.gesture_history, "UNKNOWN"),
          last_action_time |-> s.last_action_time,
          last_triggered |-> s.last_triggered, dispatched |-> s.dispatched,
          stable |-> NONE, fired |-> NONE, invoked |-> FALSE,
          calls |-> <<>>, raised |-> FALSE]

VARIABLES
    pc,                \* "start", "loop" (inside while True), "done" (left main)
    gesture_history,   \* deque(maxlen=SMOOTHING_FRAMES) of gesture names
    last_action_time,  \* timestamp of the last action, 0 at start
    last_triggered,    \* gesture of the last action, None at start
    dispatched,        \* log of the actions performed: gesture, time, description
    obs,               \* observation of the latest frame
    out,               \* what the latest frame computed: stable, now, fired, executor calls
    prev,              \* last_action_time and last_triggered as the latest frame found them
    run,               \* the frames read so far: label of the latest frame ("Absent"
                       \* without a hand), number of latest consecutive frames with
                       \* that label, number of frames (up to SMOOTHING_FRAMES) and
                       \* labels of the latest SMOOTHING_FRAMES frames,
                       \* frames read after the latest one without a named gesture
                       \* and after the latest one that differed from its predecessor
    mirror,            \* a second session, fed the same frames with Absent and
                       \* hand-present UNKNOWN exchanged
    feed,              \* a scripted session: the frames still to come, the
                       \* timestamps of the frames at which a block became stable
    cl,                \* one hand taken through fingers_up and detect_gesture
    cap,               \* the capture device: "closed", "open", "no_device" (it did
                       \* not open), "read_failed" (cap.read() returned ret = False)
    clock              \* the latest time.time() reading of a session whose clock
                       \* is followed (SpecLive), 0 elsewhere

vars == <<pc, gesture_history, last_action_time, last_triggered, dispatched, obs, out, prev, run, mirror, feed, cl, cap, clock>>

NoOut == [stable |-> NONE, now |-> 0, fired |-> NONE, invoked |-> FALSE, native |-> "ok",
          fallback |-> "ok", calls |-> <<>>, raised |-> FALSE]

Session == [gesture_history |-> gesture_history, last_action_time |-> last_action_time,
            last_triggered |-> last_triggered, dispatched |-> dispatched]

\* lines 148-150
NewSession == [gesture_history |-> <<>>, last_action_time |-> 0, last_triggered |-> NONE,
               dispatched |-> <<>>]

NoHand == [stage |-> "none", handedness |-> "Right",
           lm |-> [thumb_tip_x |-> 0, thumb_joint_x |-> 0, tip_y |-> <<0, 0, 0, 0>>, pip_y |-> <<0, 0, 0, 0>>],
           fingers |-> <<0, 0, 0, 0, 0>>, up |-> <<FALSE, FALSE, FALSE, FALSE, FALSE>>,
           shown |-> <<FALSE, FALSE, FALSE, FALSE, FALSE>>,
           gesture |-> NONE, demo_gesture |-> NONE]

InitSession ==
    /\ pc = "start"
    /\ gesture_history = NewSession.gesture_history
    /\ last_action_time = NewSession.last_action_time
    /\ last_triggered = NewSession.last_triggered
    /\ dispatched = NewSession.dispatched
    /\ obs = Absent
    /\ out = NoOut
    /\ prev = [last_action_time |-> 0, last_triggered |-> NONE]
    /\ run = [label |-> "Absent", len |-> 0, frames |-> 0, labels |-> <<>>,
              since_blank |-> SMOOTHING_FRAMES, since_change |-> SMOOTHING_FRAMES]
    /\ mirror = NewSession
    /\ cap = "closed"
    /\ clock = 0

Init ==
    /\ InitSession
    /\ feed = [script |-> <<>>, stamps |-> <<>>]
    /\ cl = NoHand

\* lines 143-146: cv2.VideoCapture(CAM_INDEX), cap.isOpened()
OpenCapture ==
    /\ pc = "start"
    /\ \E opened \in BOOLEAN :
           /\ cap' = IF opened THEN "open" ELSE "no_device"
           /\ pc' = IF opened THEN "loop" ELSE "done"
    /\ UNCHANGED <<gesture_history, last_action_time, last_triggered, dispatched, obs, out, prev, run, mirror, feed, cl, clock>>

\* mutant: a failed read is skipped and the loop reads again
ReadFailure_retried ==
    /\ pc = "loop"
    /\ cap' = "read_failed"
    /\ pc' = "loop"
    /\ UNCHANGED <<gesture_history, last_action_time, last_triggered, dispatched, obs, out, prev, run, mirror, feed, cl, clock>>

\* lines 159-161: cap.read() fails
ReadFailure ==
    /\ pc = "loop"
    /\ cap' = "read_failed"
    /\ pc' = "done"
    /\ UNCHANGED <<gesture_history, last_action_time, last_triggered, dispatched, obs, out, prev, run, mirror, feed, cl, clock>>

Label(ob) == IF ob.present THEN detect_gesture(ob.fingers) ELSE "Absent"
Min(a, b) == IF a < b THEN a ELSE b

\* lines 178 and 199: the name a frame adds to the window
Pushed(ob) == IF ob.present THEN detect_gesture(ob.fingers) ELSE "UNKNOWN"

\* the latest SMOOTHING_FRAMES entries of a log of frames
LastFrames(log) ==
    IF Len(log) <= SMOOTHING_FRAMES THEN log
    ELSE [i \in 1..SMOOTHING_FRAMES |-> log[Len(log) - SMOOTHING_FRAMES + i]]

\* the frame the mirror session is fed: u is a finger vector classified UNKNOWN
Exchanged(ob, u) ==
    IF ~ob.present THEN Present(u)
    ELSE IF detect_gesture(ob.fingers) = "UNKNOWN" THEN Absent
    ELSE ob

\* lines 159-216: one frame read and processed; ESC (line 215) ends the loop after it
FrameWith(ob, t, native, fallback, u) ==
    /\ pc = "loop"
    /\ obs' = ob
    /\ \E r \in {process_frame(Session, ob, t, native, fallback)} :
           /\ out' = [stable |-> r.stable, now |-> IF r.stable # NONE THEN t ELSE 0,
                      fired |-> r.fired, invoked |-> r.invoked, native |-> native,
                      fallback |-> fallback, calls |-> r.calls, raised |-> r.raised]
           /\ gesture_history' = r.gesture_history
           /\ last_action_time' = r.last_action_time
           /\ last_triggered' = r.last_triggered
           /\ dispatched' = r.dispatched
           /\ \E esc \in BOOLEAN : pc' = IF r.raised \/ esc THEN "done" ELSE "loop"
    /\ prev' = [last_action_time |-> last_action_time, last_triggered |-> last_triggered]
    /\ run' = [label |-> Label(ob),
               len |-> IF Label(ob) = run.label THEN Min(run.len + 1, SMOOTHING_FRAMES) ELSE 1,
               frames |-> Min(run.frames + 1, SMOOTHING_FRAMES),
               labels |-> LastFrames(Append(run.labels, Pushed(ob))),
               since_blank |-> IF Pushed(ob) = "UNKNOWN" THEN 0
                               ELSE Min(run.since_blank + 1, SMOOTHING_FRAMES),
               since_change |-> IF run.len > 0 /\ Label(ob) # run.label THEN 0
                                ELSE Min(run.since_change + 1, SMOOTHING_FRAMES)]
    /\ \E m \in {process_frame(mirror, Exchanged(ob, u), t, native, fallback)} :
           mirror' = [gesture_history |-> m.gesture_history, last_action_time |-> m.last_action_time,
                      last_triggered |-> m.last_triggered, dispatched |-> m.dispatched]
    /\ cap' = cap

\* The inputs a frame consumes: the clock value matters only when line 188
\* gets past `stable`, the executor's outcomes only when it is invoked, the
\* fallback's only when the native path did not succeed.
Unknowns == {f \in FingerInputs : detect_gesture(f) = "UNKNOWN"}
TimesRead(ob, times) ==
    IF ob.present /\ is_stable(deque_append(gesture_history, detect_gesture(ob.fingers)))
    THEN times ELSE {0}
NativesTried(ob, t) ==
    IF process_frame(Session, ob, t, "ok", "ok").invoked THEN NativeOutcomes ELSE {"ok"}
FallbacksTried(native) ==
    IF native # "ok" THEN FallbackOutcomes ELSE {"ok"}

FrameOver(observations, times) ==
    \E ob \in observations :
        \E t \in TimesRead(ob, times) :
            \E native \in NativesTried(ob, t) :
                \E fallback \in FallbacksTried(native) :
                    \E u \in IF ob.present THEN {<<1, 1, 0, 0, 0>>} ELSE Unknowns :
                        FrameWith(ob, t, native, fallback, u)

\* ---- Spec: sessions over every observation of FingerInputs and no hand ----
Frame ==
    /\ FrameOver({Absent} \cup {Present(f) : f \in FingerInputs}, Times)
    /\ UNCHANGED <<feed, cl, clock>>

Next == OpenCapture \/ ReadFailure \/ Frame

Spec == Init /\ [][Next]_vars

\* ---- SpecLong: long sessions of a hand showing OPEN_PALM or FIST ----
LongFrame ==
    /\ FrameOver({Present(<<1, 1, 1, 1, 1>>), Present(<<0, 0, 0, 0, 0>>)}, LongTimes)
    /\ UNCHANGED <<feed, cl, clock>>

NextLong == OpenCapture \/ ReadFailure \/ LongFrame

SpecLong == Init /\ [][NextLong]_vars

\* ---- SpecScenario: the re-fire scenario, frame by frame ----
Block(fingers) == [i \in 1..SMOOTHING_FRAMES |-> Present(fingers)]
Scenario ==
    Block(<<1, 1, 1, 1, 1>>) \o Block(<<1, 1, 1, 1, 1>>) \o Block(<<0, 0, 0, 0, 0>>) \o Block(<<1, 1, 1, 1, 1>>)

\* The scenario's clock reads above the cooldown, where the initial
\* last_action_time = 0 cannot withhold the first action.
ScenarioTimes == {t \in LongTimes : t > ACTION_COOLDOWN}

\* number of frames of the scenario processed so far
Fed == Len(Scenario) - Len(feed.script)

InitScenario ==
    /\ InitSession
    /\ feed = [script |-> Scenario, stamps |-> <<>>]
    /\ cl = NoHand

\* the frames at which a block of the scenario first fills the window
Marks == {SMOOTHING_FRAMES, 3 * SMOOTHING_FRAMES, 4 * SMOOTHING_FRAMES}

ScriptedRead(t) ==
    feed' = [script |-> Tail(feed.script),
             stamps |-> IF (Fed + 1) \in Marks THEN Append(feed.stamps, t) ELSE feed.stamps]

ScriptedFrame ==
    /\ feed.script # <<>>
    /\ \E t \in TimesRead(Head(feed.script), ScenarioTimes) :
           /\ \E native \in NativesTried(Head(feed.script), t) :
                  \E fallback \in FallbacksTried(native) :
                      FrameWith(Head(feed.script), t, native, fallback, <<1, 1, 0, 0, 0>>)
           /\ ScriptedRead(t)
    /\ UNCHANGED <<cl, clock>>

NextScenario == OpenCapture \/ ReadFailure \/ ScriptedFrame

SpecScenario == InitScenario /\ [][NextScenario]_vars

\* ---- SpecTour: a hand holding three named gestures, a full window each ----
NamedFingers == {f \in AllFingers : detect_gesture(f) # "UNKNOWN"}
Tours == {Block(a) \o Block(b) \o Block(c) : a, b, c \in NamedFingers}

InitTour ==
    /\ InitSession
    /\ \E tour \in Tours : feed = [script |-> tour, stamps |-> <<>>]
    /\ cl = NoHand

TourFrame ==
    /\ feed.script # <<>>
    /\ \E t \in TimesRead(Head(feed.script), ScenarioTimes) :
           \E native \in NativesTried(Head(feed.script), t) :
               \E fallback \in FallbacksTried(native) :
                   FrameWith(Head(feed.script), t, native, fallback, <<1, 1, 0, 0, 0>>)
    /\ feed' = [feed EXCEPT !.script = Tail(feed.script)]
    /\ UNCHANGED <<cl, clock>>

NextTour == OpenCapture \/ ReadFailure \/ TourFrame

SpecTour == InitTour /\ [][NextTour]_vars

\* ---- SpecLive: a session that goes on, read off a clock that never runs back ----
LiveFrame ==
    /\ \E now \in {t \in LongTimes : t >= clock} :
           /\ clock' = now
           /\ FrameOver({Present(<<1, 1, 1, 1, 1>>), Present(<<0, 0, 0, 0, 0>>)}, {now})
    /\ UNCHANGED <<feed, cl>>

NextLive == OpenCapture \/ ReadFailure \/ LiveFrame

\* The frame read at a later clock value.  LiveFrame is the only step that
\* changes clock, and it can read every later value of LongTimes while the
\* loop runs, so the steps of NextLive that change clock are these.
Later == pc = "loop" /\ clock' \in {t \in LongTimes : t > clock}

\* While the loop runs, frames keep arriving with later timestamps, up to the
\* last value of LongTimes.
SpecLive == Init /\ [][NextLive]_vars /\ WF_clock(Later)

\* ---- SpecClassify: one hand through fingers_up and detect_gesture ----
Landmarks ==
    [thumb_tip_x : Coords, thumb_joint_x : Coords,
     tip_y : [1..4 -> Coords], pip_y : [1..4 -> Coords]]

InitClassify ==
    /\ InitSession
    /\ feed = [script |-> <<>>, stamps |-> <<>>]
    /\ \E lm \in Landmarks, hd \in {"Right", "Left"} :
           cl = [NoHand EXCEPT !.stage = "hand", !.lm = lm, !.handedness = hd]

\* gtsture_control_demo.py, lines 10-22: the same comparisons, returned as booleans
demo_fingers_up(lm, handedness) ==
    LET thumb == IF handedness = "Right"
                 THEN lm.thumb_tip_x < lm.thumb_joint_x
                 ELSE lm.thumb_tip_x > lm.thumb_joint_x
    IN  <<thumb>> \o [i \in 1..4 |-> lm.tip_y[i] < lm.pip_y[i]]

\* hand_landmarks_demo.py, lines 12-30: the third copy, returned as booleans
landmarks_fingers_up(lm, handedness) ==
    LET thumb == IF handedness = "Right"
                 THEN lm.thumb_tip_x < lm.thumb_joint_x
                 ELSE lm.thumb_tip_x > lm.thumb_joint_x
        others == [i \in 1..4 |-> lm.tip_y[i] < lm.pip_y[i]]
    IN  <<thumb>> \o others

\* Python's list equality between booleans and the table's 0/1: True == 1, False == 0
PyListEq(up, pattern) == \A i \in 1..5 : up[i] = (pattern[i] = 1)

\* gtsture_control_demo.py, lines 24-36
demo_detect_gesture(up) ==
    IF PyListEq(up, <<1, 1, 1, 1, 1>>) THEN "OPEN_PALM"
    ELSE IF PyListEq(up, <<0, 0, 0, 0, 0>>) THEN "FIST"
    ELSE IF PyListEq(up, <<1, 0, 0, 0, 0>>) THEN "THUMB_UP"
    ELSE IF PyListEq(up, <<0, 1, 0, 0, 0>>) THEN "POINT"
    ELSE "UNKNOWN"

\* line 177 (line 63 of the demo)
Extract ==
    /\ cl.stage = "hand"
    /\ cl' = [cl EXCEPT !.stage = "fingers",
                        !.fingers = fingers_up(cl.lm, cl.handedness),
                        !.up = demo_fingers_up(cl.lm, cl.handedness),
                        !.shown = landmarks_fingers_up(cl.lm, cl.handedness)]
    /\ UNCHANGED <<pc, gesture_history, last_action_time, last_triggered, dispatched, obs, out, prev, run, mirror, feed, cap, clock>>

\* line 178 (line 64 of the demo)
Classify ==
    /\ cl.stage = "fingers"
    /\ cl' = [cl EXCEPT !.stage = "classified",
                        !.gesture = detect_gesture(cl.fingers),
                        !.demo_gesture = demo_detect_gesture(cl.up)]
    /\ UNCHANGED <<pc, gesture_history, last_action_time, last_triggered, dispatched, obs, out, prev, run, mirror, feed, cap, clock>>

NextClassify == Extract \/ Classify

SpecClassify == InitClassify /\ [][NextClassify]_vars

\* ======================= the claims =======================
Named == {"OPEN_PALM", "FIST", "THUMB_UP", "POINT"}
Gestures == Named \cup {"UNKNOWN"}

\* number of actions dispatched before the latest frame
FiredBefore == Len(dispatched) - (IF out.fired # NONE THEN 1 ELSE 0)

\* C1 (as claimed): on a frame with a stable gesture the executor is invoked
\* iff (no action has fired yet, whatever the clock reads, or now minus the
\* last fire timestamp exceeds the cooldown) and the gesture differs from the
\* last fired one.  The code starts last_action_time at 0 instead of leaving it
\* unset, so a first stable frame read at a clock value of at most the
\* cooldown does not fire.
C1_FireIffUnsetIsInfinite ==
    out.stable # NONE =>
        (out.invoked <=>
            /\ (FiredBefore = 0 \/ out.now - prev.last_action_time > ACTION_COOLDOWN)
            /\ out.stable # prev.last_triggered)

\* C2: any two consecutive dispatched actions are for different gestures, and
\* last_triggered stays the gesture of the latest action (it is never cleared).
C2_NoRefireOfSameGesture ==
    /\ \A i \in 1..(Len(dispatched) - 1) : dispatched[i].gesture # dispatched[i + 1].gesture
    /\ dispatched # <<>> => last_triggered = dispatched[Len(dispatched)].gesture

\* the fired gesture is stable again, the cooldown has expired, nothing fires
C2_Witness ==
    /\ dispatched # <<>>
    /\ out.stable = last_triggered
    /\ out.now - last_action_time > ACTION_COOLDOWN
    /\ ~out.invoked

\* C3: any two dispatched actions of a session have timestamps more than
\* ACTION_COOLDOWN apart, whatever their gestures.
C3_CooldownBetweenAnyTwo ==
    \A i \in 1..Len(dispatched) : \A j \in 1..Len(dispatched) :
        i < j => dispatched[j].time - dispatched[i].time > ACTION_COOLDOWN

\* three actions, the first and the third for the same gesture
C3_Witness ==
    /\ Len(dispatched) = 3
    /\ dispatched[1].gesture = dispatched[3].gesture

\* C4: the stability output is Some(g) iff the window holds exactly
\* SMOOTHING_FRAMES entries, all of them g, and g is not UNKNOWN.
Unanimous(h, g) ==
    /\ Len(h) = SMOOTHING_FRAMES
    /\ \A i \in 1..Len(h) : h[i] = g
    /\ g # "UNKNOWN"

C4_StrictUnanimity ==
    \A g \in Gestures :
        /\ (out.stable = g) <=> Unanimous(gesture_history, g)
        /\ gesture_history # <<>> =>
               ((is_stable(gesture_history) /\ most_common(gesture_history) = g)
                    <=> Unanimous(gesture_history, g))

\* a full window with five OPEN_PALM out of six, the latest among them: not stable
C4_Witness ==
    /\ Len(gesture_history) = SMOOTHING_FRAMES
    /\ Count(gesture_history, "OPEN_PALM") = SMOOTHING_FRAMES - 1
    /\ gesture_history[SMOOTHING_FRAMES] = "OPEN_PALM"
    /\ obs.present
    /\ out.stable = NONE

\* C5 (as claimed): in the scenario of 2N OPEN_PALM, N FIST and N OPEN_PALM
\* frames, whatever timestamps the frames carry, Play/Pause fires at frame N
\* and not again before frame 3N, Previous Track fires at frame 3N and
\* Play/Pause again at frame 4N.  The cooldown of line 188 withholds an
\* action whose frame comes too soon after the previous action.
Descriptions == [i \in 1..Len(dispatched) |-> dispatched[i].action]

C5_RefireWhateverTimestamps ==
    /\ Fed < SMOOTHING_FRAMES => Descriptions = <<>>
    /\ (SMOOTHING_FRAMES <= Fed /\ Fed < 3 * SMOOTHING_FRAMES) => Descriptions = <<"Play/Pause">>
    /\ (3 * SMOOTHING_FRAMES <= Fed /\ Fed < 4 * SMOOTHING_FRAMES) =>
           Descriptions = <<"Play/Pause", "Previous Track">>
    /\ Fed = 4 * SMOOTHING_FRAMES => Descriptions = <<"Play/Pause", "Previous Track", "Play/Pause">>

\* C5 (amended): nothing fires before frame N; Play/Pause fires at frame N,
\* and nothing else before frame 3N, when frame N's timestamp is more than
\* the cooldown above the initial last_action_time 0; Previous Track then
\* fires at frame 3N when its timestamp is more than the cooldown after frame
\* N's, and Play/Pause again at frame 4N when its timestamp is more than the
\* cooldown after frame 3N's.
C5_RefireWhenSpaced ==
    LET st == feed.stamps
        first == Len(st) >= 1 /\ st[1] > ACTION_COOLDOWN
        second == first /\ Len(st) >= 2 /\ st[2] - st[1] > ACTION_COOLDOWN
        third == second /\ Len(st) >= 3 /\ st[3] - st[2] > ACTION_COOLDOWN
    IN  /\ Fed < SMOOTHING_FRAMES => dispatched = <<>>
        /\ first =>
               /\ Len(dispatched) >= 1
               /\ dispatched[1] = [gesture |-> "OPEN_PALM", time |-> st[1], action |-> "Play/Pause"]
               /\ Fed < 3 * SMOOTHING_FRAMES => Len(dispatched) = 1
        /\ second =>
               /\ Len(dispatched) >= 2
               /\ dispatched[2] = [gesture |-> "FIST", time |-> st[2], action |-> "Previous Track"]
               /\ Fed < 4 * SMOOTHING_FRAMES => Len(dispatched) = 2
        /\ third =>
               /\ Len(dispatched) = 3
               /\ dispatched[3] = [gesture |-> "OPEN_PALM", time |-> st[3], action |-> "Play/Pause"]

\* the scenario ran to its end and all three actions fired at the block ends
C5_Witness ==
    /\ Fed = 4 * SMOOTHING_FRAMES
    /\ Len(dispatched) = 3
    /\ [i \in 1..3 |-> dispatched[i].time] = feed.stamps

\* C6: an action is dispatched only on a frame that completes a run of
\* SMOOTHING_FRAMES consecutive hand-present frames, all classified as the
\* dispatched gesture, which is not UNKNOWN.
C6_FireNeedsFullRun ==
    out.fired # NONE =>
        /\ out.fired \in Named
        /\ obs.present
        /\ run.label = out.fired
        /\ run.len = SMOOTHING_FRAMES

\* a second action of the session, fired for FIST
C6_Witness ==
    /\ out.fired = "FIST"
    /\ Len(dispatched) = 2

\* C7: the session fed Absent where the other is fed a hand classified
\* UNKNOWN (and the reverse) has the same window, the same dispatch state and
\* the same dispatched actions after every frame.
C7_AbsentIsUnknown ==
    /\ mirror.gesture_history = gesture_history
    /\ mirror.last_action_time = last_action_time
    /\ mirror.last_triggered = last_triggered
    /\ mirror.dispatched = dispatched

\* a frame without a hand, in a session that has fired, whose window holds
\* UNKNOWN entries beside a gesture
C7_Witness ==
    /\ ~obs.present
    /\ dispatched # <<>>
    /\ Len(gesture_history) = SMOOTHING_FRAMES
    /\ Count(gesture_history, "UNKNOWN") = 2
    /\ Count(gesture_history, "FIST") = 4

\* C8: UNKNOWN is never stable and never dispatched; last_triggered is None
\* or one of the four named gestures.
C8_UnknownNeverDispatches ==
    /\ out.stable # "UNKNOWN"
    /\ out.fired # "UNKNOWN"
    /\ \A i \in 1..Len(dispatched) : dispatched[i].gesture \in Named
    /\ last_triggered \in Named \cup {NONE}

\* six consecutive hand-present frames classified UNKNOWN fill the window
C8_Witness ==
    /\ gesture_history = [i \in 1..SMOOTHING_FRAMES |-> "UNKNOWN"]
    /\ obs.present
    /\ run.label = "UNKNOWN"
    /\ run.len = SMOOTHING_FRAMES
    /\ out.stable = NONE

\* C9: detect_gesture gives OPEN_PALM only for [1,1,1,1,1], FIST only for
\* [0,0,0,0,0], THUMB_UP only for [1,0,0,0,0], POINT only for [0,1,0,0,0] and
\* UNKNOWN for the 28 other vectors; both copies of the function agree.
Table ==
    [OPEN_PALM |-> <<1, 1, 1, 1, 1>>, FIST |-> <<0, 0, 0, 0, 0>>,
     THUMB_UP |-> <<1, 0, 0, 0, 0>>, POINT |-> <<0, 1, 0, 0, 0>>]

C9_ClassifierTable ==
    /\ cl.stage = "classified" =>
           /\ \A g \in Named : (cl.gesture = g) <=> (cl.fingers = Table[g])
           /\ (cl.gesture = "UNKNOWN") <=> (\A g \in Named : cl.fingers # Table[g])
           /\ cl.gesture \in Gestures
           /\ cl.demo_gesture = cl.gesture
    /\ \A g \in Named : {f \in AllFingers : detect_gesture(f) = g} = {Table[g]}
    /\ Cardinality({f \in AllFingers : detect_gesture(f) \in Named}) = 4
    /\ Cardinality({f \in AllFingers : detect_gesture(f) = "UNKNOWN"}) = 28

\* a left hand with index and middle finger up is classified UNKNOWN
C9_Witness ==
    /\ cl.stage = "classified"
    /\ cl.handedness = "Left"
    /\ cl.fingers = <<0, 1, 1, 0, 0>>
    /\ cl.gesture = "UNKNOWN"

\* C10: on every invocation the native path is called first and once; the
\* fallback is called iff the native path was unavailable or raised; no
\* exception leaves the executor, also when both paths fail.
CallsOf(path) == {i \in 1..Len(out.calls) : out.calls[i].path = path}

C10_NativeThenFallback ==
    out.invoked =>
        /\ Len(out.calls) >= 1
        /\ out.calls[1].path = "native"
        /\ Cardinality(CallsOf("native")) = 1
        /\ Cardinality(CallsOf("fallback")) = (IF out.native = "ok" THEN 0 ELSE 1)
        /\ (CallsOf("fallback") # {}) <=> ~out.calls[1].ok
        /\ ~out.raised

\* both paths failed and the loop is still running
C10_Witness ==
    /\ out.invoked
    /\ out.native = "raises"
    /\ out.fallback = "raises"
    /\ \A i \in 1..Len(out.calls) : ~out.calls[i].ok
    /\ pc = "loop"

\* C11: the dispatch state changes only on a fire.  On a frame without a
\* stable gesture, or read at most the cooldown after last_action_time, or
\* whose stable gesture is last_triggered, the executor is not invoked and
\* last_action_time and last_triggered stay as the frame found them; on a fire
\* both are set, to the frame's timestamp and to the stable gesture.
C11_StateChangesOnlyOnFire ==
    /\ (\/ out.stable = NONE
        \/ out.now - prev.last_action_time <= ACTION_COOLDOWN
        \/ out.stable = prev.last_triggered) =>
           /\ ~out.invoked
           /\ last_action_time = prev.last_action_time
           /\ last_triggered = prev.last_triggered
           /\ Len(dispatched) = FiredBefore
    /\ out.invoked =>
           /\ out.fired = out.stable
           /\ out.stable # NONE
           /\ last_action_time = out.now
           /\ last_triggered = out.stable
           /\ Len(dispatched) = FiredBefore + 1
    /\ ~out.invoked =>
           /\ last_action_time = prev.last_action_time
           /\ last_triggered = prev.last_triggered

\* a new gesture is stable within the cooldown of the last action: nothing changes
C11_Witness ==
    /\ out.stable \in Named
    /\ prev.last_triggered \in Named
    /\ out.stable # prev.last_triggered
    /\ out.now > prev.last_action_time
    /\ out.now - prev.last_action_time <= ACTION_COOLDOWN
    /\ ~out.invoked

\* C12: every fire for stable gesture g requests the action the static map
\* gives g (OPEN_PALM Play/Pause, FIST Previous Track, POINT Next Track,
\* THUMB_UP Volume Up), through the native key and the fallback keystroke of
\* that same gesture, and a frame requests at most one action.
ActionMap ==
    [OPEN_PALM |-> [desc |-> "Play/Pause", native |-> "media_play_pause", fallback |-> "space"],
     FIST |-> [desc |-> "Previous Track", native |-> "media_previous", fallback |-> "ctrl_l+left"],
     POINT |-> [desc |-> "Next Track", native |-> "media_next", fallback |-> "ctrl_l+right"],
     THUMB_UP |-> [desc |-> "Volume Up", native |-> "media_volume_up", fallback |-> "+"]]

C12_StaticActionMap ==
    /\ Len(dispatched) \in {FiredBefore, FiredBefore + 1}
    /\ out.invoked =>
           /\ out.stable \in Named
           /\ Len(dispatched) = FiredBefore + 1
           /\ dispatched[Len(dispatched)] =
                  [gesture |-> out.stable, time |-> out.now, action |-> ActionMap[out.stable].desc]
           /\ \A i \in CallsOf("native") : out.calls[i].key = ActionMap[out.stable].native
           /\ \A i \in CallsOf("fallback") : out.calls[i].key = ActionMap[out.stable].fallback
           /\ Cardinality(CallsOf("native")) <= 1
           /\ Cardinality(CallsOf("fallback")) <= 1
    /\ ~out.invoked => (out.calls = <<>> /\ Len(dispatched) = FiredBefore)
    /\ \A i \in 1..Len(dispatched) : dispatched[i].action = ActionMap[dispatched[i].gesture].desc

\* POINT fired through its fallback keystroke after THUMB_UP and OPEN_PALM fired
C12_Witness ==
    /\ out.fired = "POINT"
    /\ out.native # "ok"
    /\ \E i \in CallsOf("fallback") : out.calls[i].key = "ctrl_l+right"
    /\ Descriptions = <<"Volume Up", "Play/Pause", "Next Track">>

\* C13: fingers_up reports the thumb extended iff tip.x < joint.x for a Right
\* hand and iff tip.x > joint.x for a Left hand, each other finger extended
\* iff tip.y < pip.y, a coordinate equal to its reference as not extended,
\* and the three copies of fingers_up give the same answer on every input.
C13_FingersUp ==
    cl.stage \in {"fingers", "classified"} =>
        /\ cl.handedness \in {"Right", "Left"}
        /\ cl.fingers \in AllFingers
        /\ cl.handedness = "Right" =>
               ((cl.fingers[1] = 1) <=> (cl.lm.thumb_tip_x < cl.lm.thumb_joint_x))
        /\ cl.handedness = "Left" =>
               ((cl.fingers[1] = 1) <=> (cl.lm.thumb_tip_x > cl.lm.thumb_joint_x))
        /\ cl.lm.thumb_tip_x = cl.lm.thumb_joint_x => cl.fingers[1] = 0
        /\ \A i \in 1..4 :
               /\ (cl.fingers[i + 1] = 1) <=> (cl.lm.tip_y[i] < cl.lm.pip_y[i])
               /\ cl.lm.tip_y[i] = cl.lm.pip_y[i] => cl.fingers[i + 1] = 0
        /\ \A i \in 1..5 :
               /\ cl.up[i] = (cl.fingers[i] = 1)
               /\ cl.shown[i] = (cl.fingers[i] = 1)

\* a Left hand: thumb tip to the right of its joint, index tip on its pip
\* joint, middle tip above its pip joint
C13_Witness ==
    /\ cl.stage = "fingers"
    /\ cl.handedness = "Left"
    /\ cl.lm.thumb_tip_x > cl.lm.thumb_joint_x
    /\ cl.lm.tip_y[1] = cl.lm.pip_y[1]
    /\ cl.lm.tip_y[2] < cl.lm.pip_y[2]
    /\ cl.fingers[1] = 1 /\ cl.fingers[2] = 0 /\ cl.fingers[3] = 1
    /\ cl.shown = <<TRUE, FALSE, TRUE>> \o SubSeq(cl.up, 4, 5)

\* C14 (as claimed): after a frame without a hand or classified UNKNOWN, and
\* after a frame whose gesture differs from that of the frame before it, no
\* gesture is stable on any of the N-1 frames that follow, whatever they
\* contain.  A frame that starts a new named gesture is itself the first of
\* the N frames that fill the window, so the gesture is stable on the
\* (N-1)-th frame after it.
C14_NoneForNMinusOneFrames ==
    /\ run.since_blank \in 1..(SMOOTHING_FRAMES - 1) => out.stable = NONE
    /\ run.since_change \in 1..(SMOOTHING_FRAMES - 1) => out.stable = NONE

\* C14 (amended): no gesture is stable on the N-1 frames that follow a frame
\* without a hand or classified UNKNOWN, nor on that frame; no gesture is
\* stable on the N-2 frames that follow a frame whose gesture differs from
\* that of the frame before it, nor on that frame.
C14_NoneWhileWindowMixed ==
    /\ run.since_blank \in 0..(SMOOTHING_FRAMES - 1) => out.stable = NONE
    /\ run.since_change \in 0..(SMOOTHING_FRAMES - 2) => out.stable = NONE

\* the hand was lost once and N-1 FIST frames followed
C14_Witness ==
    /\ run.since_blank = SMOOTHING_FRAMES - 1
    /\ run.since_change = SMOOTHING_FRAMES - 2
    /\ obs = Present(<<0, 0, 0, 0, 0>>)
    /\ Count(gesture_history, "FIST") = SMOOTHING_FRAMES - 1
    /\ out.stable = NONE

\* C15: after k frames the window holds the labels of the latest min(k, N)
\* frames in arrival order, a frame without a hand counting as UNKNOWN: one
\* entry per frame, the oldest evicted beyond N, never more than N entries,
\* every entry one of the five gesture names and never the display string
\* "No hand".
C15_WindowIsLastFrames ==
    /\ gesture_history = run.labels
    /\ Len(gesture_history) = run.frames
    /\ Len(gesture_history) <= SMOOTHING_FRAMES
    /\ \A i \in 1..Len(gesture_history) : gesture_history[i] \in Gestures
    /\ run.frames > 0 => gesture_history[Len(gesture_history)] = Pushed(obs)

\* FIST filled the window and fired, four OPEN_PALM frames and a frame
\* without a hand evicted all but the latest FIST entry
C15_Witness ==
    /\ last_triggered = "FIST"
    /\ ~obs.present
    /\ gesture_history = <<"FIST", "OPEN_PALM", "OPEN_PALM", "OPEN_PALM", "OPEN_PALM", "UNKNOWN">>

\* C16: capture-layer failures are terminal and not retried.  When the
\* capture device does not open, main returns: no frame is processed and no
\* action is dispatched.  After the first failed read the loop is left: no
\* later frame is pushed into the window and no later action is dispatched.
\* Frames are processed only while the device is open.
C16_CaptureFailuresAreTerminal ==
    [][/\ cap' = "no_device" =>
              /\ pc' = "done"
              /\ run'.frames = 0
              /\ gesture_history' = <<>>
              /\ dispatched' = <<>>
       /\ cap' = "read_failed" => pc' = "done"
       /\ pc' = "loop" => cap' = "open"
       /\ cap \in {"no_device", "read_failed"} =>
              /\ pc' = "done"
              /\ UNCHANGED <<gesture_history, last_action_time, last_triggered, dispatched, obs, out, run>>]_vars

\* a read failed after the window had filled and an action had fired
C16_Witness ==
    /\ cap = "read_failed"
    /\ pc = "done"
    /\ Len(gesture_history) = SMOOTHING_FRAMES
    /\ Len(dispatched) = 1

\* C17: a fire updates the dispatch state whether or not a key press was
\* delivered: when the executor is invoked for a named gesture and both the
\* native path and the fallback path fail, last_action_time and
\* last_triggered are still set to the frame's timestamp and gesture and the
\* action is logged, so the cooldown and the same-gesture suppression start
\* from an action that was never delivered.
C17_FireUpdatesWhateverDelivery ==
    (out.invoked /\ \A i \in 1..Len(out.calls) : ~out.calls[i].ok) =>
        /\ out.native # "ok"
        /\ out.fallback = "raises"
        /\ out.stable \in Named
        /\ out.fired = out.stable
        /\ last_action_time = out.now
        /\ last_triggered = out.stable
        /\ Len(dispatched) = FiredBefore + 1
        /\ dispatched[Len(dispatched)].action = ActionMap[out.stable].desc
        /\ ~may_fire(TRUE, out.stable, out.now, last_action_time, last_triggered)

\* OPEN_PALM fired although the media key is unavailable and the fallback raised
C17_Witness ==
    /\ out.invoked
    /\ out.native = "unavailable"
    /\ out.fallback = "raises"
    /\ Cardinality(CallsOf("fallback")) = 1
    /\ last_triggered = "OPEN_PALM"
    /\ last_action_time = out.now
    /\ prev.last_triggered = NONE

\* C18: a stable gesture blocked only by the cooldown is delayed, not lost.
\* While frames keep arriving and the clock moves on, a named gesture g other
\* than last_triggered that is stable, with room on the clock for the cooldown
\* to run out, is dispatched, unless g stops being stable or the loop ends first.
LastTime == CHOOSE t \in LongTimes : \A u \in LongTimes : u <= t

Pending(g) ==
    /\ pc = "loop"
    /\ out.stable = g
    /\ last_triggered # g
    /\ last_action_time + ACTION_COOLDOWN < LastTime

C18_DelayedNotLost ==
    \A g \in Named : Pending(g) ~> (last_triggered = g \/ out.stable # g \/ pc # "loop")

\* FIST is stable half a cooldown after OPEN_PALM fired: blocked by the cooldown alone
C18_Witness ==
    /\ Pending("FIST")
    /\ last_triggered = "OPEN_PALM"
    /\ clock = last_action_time + ACTION_COOLDOWN \div 2
    /\ out.now = clock
    /\ ~out.invoked
====
